---- MODULE Spec2Model ----
(***************************************************************************)
(* Model of the ErrorHandler utility of kiara-note (utils/errorHandler):   *)
(* retry with exponential backoff, the per-operation circuit breaker, the  *)
(* rate-limit windows and the error classification.                        *)
(*                                                                         *)
(* Times are milliseconds.  A retry delay is kept in tenths of a           *)
(* millisecond, so that the multiplier (1 + n * 0.1) stays an integer.     *)
(***************************************************************************)
EXTENDS Integers, Sequences, FiniteSets, TLC

(***************************************************************************)
(* Bounds of the model.                                                    *)
(***************************************************************************)
MaxRetriesBound == 1     \* options.maxRetries ranges over -1 .. MaxRetriesBound
MaxFailures == 2         \* failed invocations in one behaviour
MaxTicks == 2            \* the clock runs from 0 to MaxTicks * TickMs
MaxMessageLen == 2       \* message fragments of a classified error
MaxAttempt == 5          \* retry indexes of the delay model: 0 .. MaxAttempt
MaxErrorCount == 6       \* failures tracked in the delay model
MaxTracked == 2          \* failures tracked in the statistics model
MaxStatsTicks == 2       \* the clock of the statistics model: 0 .. MaxStatsTicks * StatsTickMs

\* const baseDelay = 1000 of getRetryDelay; the clock of the model advances
\* in steps of this length.
baseDelay == 1000

TickMs == baseDelay

\* The retryOperation calls of a behaviour; they may overlap.
Calls == {1, 2}

MaxTime == MaxTicks * TickMs

(***************************************************************************)
(* Inputs.                                                                 *)
(***************************************************************************)
\* Operation names.  "fetch_network" is the name that equals the tracking
\* key of a network failure of "fetch".
OpNames == {"fetch", "fetch_network"}

\* error.status === undefined: every comparison of getErrorType fails.
NoStatus == -1

\* error.message as the sequence of the fragments it is made of; the empty
\* sequence is a missing (or empty) message, in which no fragment occurs.
NoMessage == << >>

MkError(message, status) == [defined |-> TRUE, message |-> message, status |-> status]

\* The value of `let lastError;` before any assignment.
Undefined == [defined |-> FALSE, message |-> NoMessage, status |-> NoStatus]

\* Errors an operation raises in the retry model: two retryable ones, the
\* 401 of a bad token and a 404.
OpErrors ==
    { MkError(<<"network">>, NoStatus),
      MkError(<<"Bad credentials">>, 401),
      MkError(NoMessage, 404),
      MkError(NoMessage, 500) }

\* The one error of the rate-limit model.
LimitErrors == { MkError(<<"network">>, NoStatus) }

\* Values an operation resolves with.
Values == {"v1", "v2"}

MaxRetriesSet == -1 .. MaxRetriesBound
MaxDelaySet == {30000}
ThresholdSet == {1}
TimeoutSet == {1000}
JitterSet == {0, 500}

WindowSet == {1000, 2000}
MaxRequestsSet == {0, 1, 2}

Options == [maxRetries : MaxRetriesSet,
            maxDelay : MaxDelaySet,
            circuitBreakerThreshold : ThresholdSet,
            circuitBreakerTimeout : TimeoutSet,
            operationName : OpNames]

\* The inputs of the rate-limit model.
LimitOptions == {o \in Options : o.maxRetries = 1}
LimitValues == {"v1"}
LimitJitterSet == {0}
LimitWindowSet == {1000}
LimitMaxRequestsSet == {2}

\* The inputs of the classification model: messages of up to MaxMessageLen
\* fragments, with and without the four fragments getErrorType looks for.
Fragments == {"rate limit", "network", "authentication", "permission", "Bad credentials"}

RECURSIVE MessagesUpTo(_)
MessagesUpTo(n) ==
    IF n = 0 THEN {NoMessage}
    ELSE MessagesUpTo(n - 1)
           \cup {Append(m, f) : m \in MessagesUpTo(n - 1), f \in Fragments}

StatusSet == {NoStatus, 200, 401, 403, 404, 429, 500, 503}

ClassifyErrors == {MkError(m, st) : m \in MessagesUpTo(MaxMessageLen), st \in StatusSet}

(***************************************************************************)
(* Helpers: Map operations and strings.                                    *)
(***************************************************************************)
Min(a, b) == IF a <= b THEN a ELSE b

Max(a, b) == IF a >= b THEN a ELSE b

RECURSIVE Pow2(_)
Pow2(n) == IF n <= 0 THEN 1 ELSE 2 * Pow2(n - 1)

EmptyMap == [k \in {} |-> 0]

MapHas(m, k) == k \in DOMAIN m

MapSet(m, k, v) == [x \in DOMAIN m \cup {k} |-> IF x = k THEN v ELSE m[x]]

MapDelete(m, k) == [x \in DOMAIN m \ {k} |-> m[x]]

\* String.prototype.includes on a message: the fragment occurs in it.
Includes(message, fragment) == \E i \in 1 .. Len(message) : message[i] = fragment

\* String.prototype.startsWith
StartsWith(s, prefix) ==
    /\ Len(s) >= Len(prefix)
    /\ SubSeq(s, 1, Len(prefix)) = prefix

(***************************************************************************)
(* ErrorHandler: pure parts.                                               *)
(***************************************************************************)
\* getErrorType with the status checks moved before the message checks.
getErrorTypeStatusFirst(error) ==
    IF error.status = 401 THEN "auth"
    ELSE IF error.status = 403 THEN "permission"
    ELSE IF error.status = 404 THEN "not_found"
    ELSE IF error.status = 429 THEN "rate_limit"
    ELSE IF error.status >= 500 THEN "server"
    ELSE IF Includes(error.message, "rate limit") THEN "rate_limit"
    ELSE IF Includes(error.message, "network") THEN "network"
    ELSE IF Includes(error.message, "authentication") THEN "auth"
    ELSE IF Includes(error.message, "permission") THEN "permission"
    ELSE "general"

getErrorType(error) ==
    IF Includes(error.message, "rate limit") THEN "rate_limit"
    ELSE IF Includes(error.message, "network") THEN "network"
    ELSE IF Includes(error.message, "authentication") THEN "auth"
    ELSE IF Includes(error.message, "permission") THEN "permission"
    ELSE IF error.status = 401 THEN "auth"
    ELSE IF error.status = 403 THEN "permission"
    ELSE IF error.status = 404 THEN "not_found"
    ELSE IF error.status = 429 THEN "rate_limit"
    ELSE IF error.status >= 500 THEN "server"
    ELSE "general"

noRetryErrors == {"authentication", "permission", "not_found"}

shouldNotRetry(error) == getErrorType(error) \in noRetryErrors

\* const key = `${operation}_${error.type || 'general'}`
TrackKey(operation, type) == operation \o "_" \o type

\* trackErrorCounts that writes back a count read before other failures were
\* recorded: the entry restarts at 1.
trackErrorCountsLost(ec, operation, tracked, t) ==
    LET key == TrackKey(operation, tracked.type)
        tracking == IF MapHas(ec, key) THEN ec[key]
                    ELSE [count |-> 0, firstError |-> t, lastError |-> t]
    IN  MapSet(ec, key, [tracking EXCEPT !.count = 1, !.lastError = t])

\* trackError, the errorCounts map after the call at time t
trackErrorCounts(ec, operation, tracked, t) ==
    LET key == TrackKey(operation, tracked.type)
        tracking == IF MapHas(ec, key) THEN ec[key]
                    ELSE [count |-> 0, firstError |-> t, lastError |-> t]
    IN  MapSet(ec, key, [tracking EXCEPT !.count = @ + 1, !.lastError = t])

\* trackErrorLast that stores the detail of the first failure of a key only.
trackErrorLastFirstOnly(ec, le, operation, tracked, t) ==
    LET key == TrackKey(operation, tracked.type)
    IN  IF MapHas(le, key) THEN le
        ELSE MapSet(le, key, [error |-> tracked, timestamp |-> t, count |-> 1])

\* trackError, the lastErrors map after the call at time t
trackErrorLast(ec, le, operation, tracked, t) ==
    LET key == TrackKey(operation, tracked.type)
    IN  MapSet(le, key, [error |-> tracked,
                         timestamp |-> t,
                         count |-> trackErrorCounts(ec, operation, tracked, t)[key].count])

\* The object retryOperation hands to trackError.
Tracked(error) ==
    [type |-> getErrorType(error), message |-> error.message, status |-> error.status]

\* isRateLimited that also asks for an exhausted window, as the isLimited of
\* getRateLimitStatus does.
isRateLimitedWhenFull(rl, operation, t) ==
    IF ~MapHas(rl, operation) THEN FALSE
    ELSE t < rl[operation].resetTime /\ rl[operation].count >= rl[operation].maxRequests

isRateLimited(rl, operation, t) ==
    IF ~MapHas(rl, operation) THEN FALSE
    ELSE t < rl[operation].resetTime

\* applyRateLimit that lets one request too many through.
applyRateLimitOffByOne(rl, operation, windowMs, maxRequests, t) ==
    IF ~MapHas(rl, operation)
    THEN [rateLimits |-> MapSet(rl, operation, [count |-> 1,
                                                resetTime |-> t + windowMs,
                                                windowMs |-> windowMs,
                                                maxRequests |-> maxRequests]),
          ret |-> FALSE]
    ELSE LET limit == rl[operation] IN
         IF t >= limit.resetTime
         THEN [rateLimits |-> MapSet(rl, operation,
                                     [limit EXCEPT !.count = 1, !.resetTime = t + windowMs]),
               ret |-> FALSE]
         ELSE IF limit.count > limit.maxRequests
         THEN [rateLimits |-> rl, ret |-> TRUE]
         ELSE [rateLimits |-> MapSet(rl, operation, [limit EXCEPT !.count = @ + 1]),
               ret |-> FALSE]

\* applyRateLimit that takes the limit of the call that restarts the window.
applyRateLimitRenews(rl, operation, windowMs, maxRequests, t) ==
    IF ~MapHas(rl, operation)
    THEN [rateLimits |-> MapSet(rl, operation, [count |-> 1,
                                                resetTime |-> t + windowMs,
                                                windowMs |-> windowMs,
                                                maxRequests |-> maxRequests]),
          ret |-> FALSE]
    ELSE LET limit == rl[operation] IN
         IF t >= limit.resetTime
         THEN [rateLimits |-> MapSet(rl, operation, [count |-> 1,
                                                     resetTime |-> t + windowMs,
                                                     windowMs |-> windowMs,
                                                     maxRequests |-> maxRequests]),
               ret |-> FALSE]
         ELSE IF limit.count >= limit.maxRequests
         THEN [rateLimits |-> rl, ret |-> TRUE]
         ELSE [rateLimits |-> MapSet(rl, operation, [limit EXCEPT !.count = @ + 1]),
               ret |-> FALSE]

\* applyRateLimit: the rateLimits map after the call and the value returned
applyRateLimit(rl, operation, windowMs, maxRequests, t) ==
    IF ~MapHas(rl, operation)
    THEN [rateLimits |-> MapSet(rl, operation, [count |-> 1,
                                                resetTime |-> t + windowMs,
                                                windowMs |-> windowMs,
                                                maxRequests |-> maxRequests]),
          ret |-> FALSE]
    ELSE LET limit == rl[operation] IN
         IF t >= limit.resetTime
         THEN [rateLimits |-> MapSet(rl, operation,
                                     [limit EXCEPT !.count = 1, !.resetTime = t + windowMs]),
               ret |-> FALSE]
         ELSE IF limit.count >= limit.maxRequests
         THEN [rateLimits |-> rl, ret |-> TRUE]
         ELSE [rateLimits |-> MapSet(rl, operation, [limit EXCEPT !.count = @ + 1]),
               ret |-> FALSE]

\* getRetryDelay in tenths of a millisecond; jitter stands for
\* Math.random() * 1000.
getRetryDelay(ec, operation, attempt, maxDelay, jitter) ==
    LET errorCount == IF MapHas(ec, operation) THEN ec[operation].count ELSE 0
        delay == Min(baseDelay * Pow2(attempt) + jitter, maxDelay)
        errorMultiplier == Min(errorCount, 5)
    IN  delay * (10 + errorMultiplier)

\* The two errors retryOperation creates itself.
CircuitOpenError(operationName) ==
    MkError(<<"Circuit breaker open for ", operationName, ". Too many failures.">>, NoStatus)

RateLimitError(operationName, resetTime) ==
    MkError(<<"Rate limit exceeded for ", operationName, ". Try again after ",
              ToString(resetTime), ".">>, NoStatus)

\* retryOperation, circuit check: the call is rejected
circuitOpen(ec, o, t) ==
    /\ MapHas(ec, o.operationName)
    /\ ec[o.operationName].count >= o.circuitBreakerThreshold
    /\ t - ec[o.operationName].lastError < o.circuitBreakerTimeout

\* retryOperation, circuit check: the threshold is reached and the timeout
\* has passed
circuitCooled(ec, o, t) ==
    /\ MapHas(ec, o.operationName)
    /\ ec[o.operationName].count >= o.circuitBreakerThreshold
    /\ ~(t - ec[o.operationName].lastError < o.circuitBreakerTimeout)

\* circuitReset without its errorCounts.delete(key).
circuitResetKeeps(ec, o) == ec

\* retryOperation, circuit check: errorCounts when the call is not rejected
circuitReset(ec, o) ==
    IF MapHas(ec, o.operationName)
         /\ ec[o.operationName].count >= o.circuitBreakerThreshold
    THEN MapDelete(ec, o.operationName)
    ELSE ec

(***************************************************************************)
(* State.                                                                  *)
(***************************************************************************)
VARIABLES
    now,          \* Date.now()
    errorCounts,  \* ErrorHandler.errorCounts: key -> {count, firstError, lastError}
    lastErrors,   \* ErrorHandler.lastErrors: key -> {error, timestamp, count}
    rateLimits,   \* ErrorHandler.rateLimits: operation -> window
    call,         \* the retryOperation calls: position, options and locals
    hist,         \* history per operation name: failures recorded by
                  \* retryOperation since the last success or clear
    rlHist,       \* history per operation name: applyRateLimit calls in the
                  \* current window and the last value returned
    classified,   \* an error and the type getErrorType gave it
    query,        \* the statistics or maintenance request made in the last
                  \* step and what it returned; NoQuery after any other step
    auth          \* AuthProvider: its state (token, user, octokit, loading)
                  \* and the position of its start-up

vars == <<now, errorCounts, lastErrors, rateLimits, call, hist, rlHist, classified, query,
          auth>>

NoOptions == [maxRetries |-> 0, maxDelay |-> 0, circuitBreakerThreshold |-> 0,
              circuitBreakerTimeout |-> 0, operationName |-> ""]

IdleCall == [pc |-> "idle",          \* idle, awaitOp, backoff, done
             o |-> NoOptions,        \* the destructured options
             attempt |-> 0,
             lastError |-> Undefined,
             wakeAt |-> 0,           \* when the backoff timer is due, in ms/10
             outcome |-> "none",     \* none, returned, raised
             result |-> "",          \* the value returned
             thrown |-> Undefined,   \* the value raised
             halfOpen |-> FALSE,     \* history: the circuit check reset the breaker
             invocations |-> 0,      \* history: operation() calls made
             failures |-> 0,         \* history: invocations that failed
             resolved |-> ""]        \* history: value of the invocation that succeeded

NoHist == [fails |-> 0, lastFail |-> 0]

NoRlHist == [calls |-> 0,         \* calls in the current window
             ret |-> FALSE,       \* value returned by the last call
             prevRet |-> FALSE,   \* value returned by the call before it
             windowMs |-> 0]      \* windowMs passed by the last call

NotClassified == [error |-> Undefined, type |-> ""]

NoQuery == [kind |-> "none"]

\* localStorage.getItem('github_token') === null
NoToken == ""

\* The operation name AuthProvider.fetchUser passes.
AuthName == "fetchUser"

\* The state of AuthProvider when it is rendered first, with the token found
\* in localStorage: useState(null), useState(token), useState(true),
\* useState(null); its effect has not run yet.
MountedAuth(token) ==
    [pc |-> "effect",      \* unmounted, effect, fetchUser, idle
     token |-> token,
     user |-> "",
     octokit |-> NoToken,
     loading |-> TRUE,
     stored |-> token,      \* localStorage 'github_token'
     login |-> "none",      \* login(): none, delay, fetchUser, resolved, rejected
     loginToken |-> NoToken,  \* the githubToken login was called with
     loginWakeAt |-> 0,     \* when the 100 ms timer of login is due
     loginError |-> ""]     \* the message of the error login rejected with

\* AuthProvider is not rendered.
NoAuth == [MountedAuth(NoToken) EXCEPT !.pc = "unmounted"]

Init ==
    /\ now = 0
    /\ errorCounts = EmptyMap
    /\ lastErrors = EmptyMap
    /\ rateLimits = EmptyMap
    /\ call = [c \in Calls |-> IdleCall]
    /\ hist = [n \in OpNames \cup {AuthName} |-> NoHist]
    /\ rlHist = [n \in OpNames |-> NoRlHist]
    /\ classified = NotClassified
    /\ query = NoQuery
    /\ auth = NoAuth

(***************************************************************************)
(* retryOperation, step by step.  A step runs from one await to the next.  *)
(***************************************************************************)
\* `await operation()` of the loop body: the operation is invoked.
Invoke(r) == [r EXCEPT !.pc = "awaitOp", !.invocations = @ + 1]

\* Raise that wraps what it raises in a new error.
RaiseWrapped(r, error) ==
    [r EXCEPT !.pc = "done", !.outcome = "raised",
              !.thrown = MkError(<<"Operation failed">>, NoStatus)]

Raise(r, error) == [r EXCEPT !.pc = "done", !.outcome = "raised", !.thrown = error]

Return(r, value) == [r EXCEPT !.pc = "done", !.outcome = "returned", !.result = value]

\* The loop `for (attempt; attempt <= maxRetries; ...)` entered with r.attempt;
\* after the loop comes `throw lastError`.
LoopFrom(r) ==
    IF r.attempt <= r.o.maxRetries THEN Invoke(r) ELSE Raise(r, r.lastError)

\* The call, from its entry to its first await (or to its throw).
retryOperationStart(r, o, ec, rl, t) ==
    IF circuitOpen(ec, o, t)
    THEN Raise([r EXCEPT !.o = o], CircuitOpenError(o.operationName))
    ELSE IF isRateLimited(rl, o.operationName, t)
    THEN Raise([r EXCEPT !.o = o],
               RateLimitError(o.operationName, rl[o.operationName].resetTime))
    ELSE LoopFrom([r EXCEPT !.o = o, !.attempt = 0])

\* retryOperationStartCounts that counts the refused call as one more
\* failure of its name.
retryOperationStartCountsRefused(o, ec, t) ==
    IF circuitOpen(ec, o, t)
    THEN [ec EXCEPT ![o.operationName] = [@ EXCEPT !.count = @ + 1, !.lastError = t]]
    ELSE circuitReset(ec, o)

\* errorCounts after the entry of the call
retryOperationStartCounts(o, ec, t) ==
    IF circuitOpen(ec, o, t) THEN ec ELSE circuitReset(ec, o)

\* `const delay = this.getRetryDelay(key, attempt, maxDelay)`: the delay the
\* call with options o waits after its attempt failed; the baseDelay of the
\* options is not handed on.
retryOperationDelay(o, attempt, ec, jitter) ==
    getRetryDelay(ec, o.operationName, attempt, o.maxDelay, jitter)

\* retryOperationSuccess without its `return result`.
retryOperationSuccessNoValue(r, value) == Return(r, "")

\* The try branch after `await operation()` resolved with value.
retryOperationSuccess(r, value) == Return(r, value)

\* retryOperationCatch giving up one attempt early.
retryOperationCatchEarly(r, error, ec, t, jitter) ==
    LET r1 == [r EXCEPT !.lastError = error] IN
    IF shouldNotRetry(error) THEN Raise(r1, error)
    ELSE IF r1.attempt + 1 >= r1.o.maxRetries THEN Raise(r1, r1.lastError)
    ELSE [r1 EXCEPT !.pc = "backoff",
                    !.wakeAt = 10 * t + retryOperationDelay(r1.o, r1.attempt, ec, jitter)]

\* The catch branch after `await operation()` rejected with error; ec is
\* errorCounts after trackError.
retryOperationCatch(r, error, ec, t, jitter) ==
    LET r1 == [r EXCEPT !.lastError = error] IN
    IF shouldNotRetry(error) THEN Raise(r1, error)
    ELSE IF r1.attempt = r1.o.maxRetries THEN Raise(r1, r1.lastError)
    ELSE [r1 EXCEPT !.pc = "backoff",
                    !.wakeAt = 10 * t + retryOperationDelay(r1.o, r1.attempt, ec, jitter)]

\* retryOperationResume without the attempt++ of the loop.
retryOperationResumeSameAttempt(r) == LoopFrom(r)

\* The timer of the backoff fired: attempt++ and the loop goes on.
retryOperationResume(r) == LoopFrom([r EXCEPT !.attempt = @ + 1])

(***************************************************************************)
(* Actions.                                                                *)
(***************************************************************************)
\* Failed invocations so far, of the calls cs.
RECURSIVE SumFailures(_)
SumFailures(cs) ==
    IF cs = {} THEN 0
    ELSE LET c == CHOOSE x \in cs : TRUE
         IN  call[c].failures + SumFailures(cs \ {c})

\* Start that counts the call against the window of its name.
StartCounted(c, o) ==
    /\ call[c].pc = "idle"
    /\ \A d \in Calls : d < c => call[d].pc # "idle"
    /\ call' = [call EXCEPT ![c] =
                   retryOperationStart([IdleCall EXCEPT
                                          !.halfOpen = circuitCooled(errorCounts, o, now)],
                                       o, errorCounts, rateLimits, now)]
    /\ errorCounts' = retryOperationStartCounts(o, errorCounts, now)
    /\ rateLimits' = applyRateLimit(rateLimits, o.operationName, 60000, 10, now).rateLimits
    /\ UNCHANGED <<now, lastErrors, hist, rlHist, classified>>
    /\ UNCHANGED auth
    /\ query' = NoQuery

\* withErrorHandling(operation, o) is called.  The calls are numbered in the
\* order they start.
Start(c, o) ==
    /\ call[c].pc = "idle"
    /\ \A d \in Calls : d < c => call[d].pc # "idle"
    /\ call' = [call EXCEPT ![c] =
                   retryOperationStart([IdleCall EXCEPT
                                          !.halfOpen = circuitCooled(errorCounts, o, now)],
                                       o, errorCounts, rateLimits, now)]
    /\ errorCounts' = retryOperationStartCounts(o, errorCounts, now)
    /\ UNCHANGED <<now, lastErrors, rateLimits, hist, rlHist, classified>>
    /\ UNCHANGED auth
    /\ query' = NoQuery

\* The operation of call c resolves with value.
OpSucceeds(c, value) ==
    /\ call[c].pc = "awaitOp"
    /\ call' = [call EXCEPT ![c] = retryOperationSuccess([@ EXCEPT !.resolved = value], value)]
    /\ errorCounts' = MapDelete(errorCounts, call[c].o.operationName)
    /\ hist' = [hist EXCEPT ![call[c].o.operationName] = NoHist]
    /\ UNCHANGED <<now, lastErrors, rateLimits, rlHist, classified>>
    /\ UNCHANGED auth
    /\ query' = NoQuery

\* The operation of call c rejects with error.
OpFails(c, error, jitter) ==
    /\ call[c].pc = "awaitOp"
    /\ SumFailures(Calls) < MaxFailures
    /\ LET key == call[c].o.operationName
           ec == trackErrorCounts(errorCounts, key, Tracked(error), now)
       IN  /\ errorCounts' = ec
           /\ lastErrors' = trackErrorLast(errorCounts, lastErrors, key, Tracked(error), now)
           /\ call' = [call EXCEPT ![c] =
                          retryOperationCatch([@ EXCEPT !.failures = @ + 1], error, ec, now, jitter)]
           /\ hist' = [hist EXCEPT ![key] = [fails |-> @.fails + 1, lastFail |-> now]]
    /\ UNCHANGED <<now, rateLimits, rlHist, classified>>
    /\ UNCHANGED auth
    /\ query' = NoQuery

\* TimerFires that does not wait for the delay.
TimerFiresEarly(c) ==
    /\ call[c].pc = "backoff"
    /\ call' = [call EXCEPT ![c] = retryOperationResume(@)]
    /\ UNCHANGED <<now, errorCounts, lastErrors, rateLimits, hist, rlHist, classified>>
    /\ UNCHANGED auth
    /\ query' = NoQuery

\* The backoff timer of call c fires, not before its delay has passed.
TimerFires(c) ==
    /\ call[c].pc = "backoff"
    /\ 10 * now >= call[c].wakeAt
    /\ call' = [call EXCEPT ![c] = retryOperationResume(@)]
    /\ UNCHANGED <<now, errorCounts, lastErrors, rateLimits, hist, rlHist, classified>>
    /\ UNCHANGED auth
    /\ query' = NoQuery

\* applyRateLimit(operation, windowMs, maxRequests) is called.
ApplyRateLimit(operation, windowMs, maxRequests) ==
    LET res == applyRateLimit(rateLimits, operation, windowMs, maxRequests, now)
        fresh == ~MapHas(rateLimits, operation) \/ now >= rateLimits[operation].resetTime
    IN  /\ rateLimits' = res.rateLimits
        /\ rlHist' = [rlHist EXCEPT ![operation] =
                         [calls |-> IF fresh THEN 1
                                    ELSE Min(@.calls + 1, rateLimits[operation].maxRequests + 1),
                          ret |-> res.ret,
                          prevRet |-> @.ret,
                          windowMs |-> windowMs]]
        /\ UNCHANGED <<now, errorCounts, lastErrors, call, hist, classified>>
        /\ UNCHANGED auth
        /\ query' = NoQuery

\* Time passes.
Tick ==
    /\ now + TickMs <= MaxTime
    /\ now' = now + TickMs
    /\ UNCHANGED <<errorCounts, lastErrors, rateLimits, call, hist, rlHist, classified>>
    /\ UNCHANGED auth
    /\ query' = NoQuery

\* The steps of the retryOperation calls, with options, values, errors and
\* jitter drawn from the given sets.
CallStep(optionSet, valueSet, errorSet, jitterSet) ==
    \/ \E c \in Calls, o \in optionSet : Start(c, o)
    \/ \E c \in Calls, value \in valueSet : OpSucceeds(c, value)
    \/ \E c \in Calls, error \in errorSet, jitter \in jitterSet : OpFails(c, error, jitter)
    \/ \E c \in Calls : TimerFires(c)

\* The retry model: calls of retryOperation and the clock.
Next ==
    \/ CallStep(Options, Values, OpErrors, JitterSet)
    \/ Tick

Spec == Init /\ [][Next]_vars

\* The inputs of the termination model.
LiveOptions == {o \in Options : o.operationName = "fetch"}
LiveErrors == { MkError(<<"network">>, NoStatus), MkError(NoMessage, 404) }

\* Time passes while a backoff timer is pending, past MaxTime too: the clock
\* does not stop before a timer that was set is due.
Elapse ==
    /\ \E c \in Calls : call[c].pc = "backoff" /\ 10 * now < call[c].wakeAt
    /\ now' = now + TickMs
    /\ UNCHANGED auth
    /\ query' = NoQuery
    /\ UNCHANGED <<errorCounts, lastErrors, rateLimits, call, hist, rlHist, classified>>

\* The invocation call c awaits settles: it resolves or it rejects.
Settles(c) ==
    \/ \E value \in LimitValues : OpSucceeds(c, value)
    \/ \E error \in LiveErrors, jitter \in JitterSet : OpFails(c, error, jitter)

\* The termination model: the retry model in which every invocation settles,
\* every timer that is due fires and the clock reaches every pending timer.
NextLive ==
    \/ CallStep(LiveOptions, LimitValues, LiveErrors, JitterSet)
    \/ Tick
    \/ Elapse

SpecLive ==
    /\ Init
    /\ [][NextLive]_vars
    /\ \A c \in Calls : WF_vars(Settles(c))
    /\ \A c \in Calls : WF_vars(TimerFires(c))
    /\ WF_vars(Elapse)

\* The rate-limit model: calls of retryOperation next to applyRateLimit.
NextLimit ==
    \/ CallStep(LimitOptions, LimitValues, LimitErrors, LimitJitterSet)
    \/ \E operation \in OpNames, windowMs \in LimitWindowSet, maxRequests \in LimitMaxRequestsSet :
          ApplyRateLimit(operation, windowMs, maxRequests)
    \/ Tick

SpecLimit == Init /\ [][NextLimit]_vars

\* getRateLimitStatus whose isLimited leaves the count out, as isRateLimited
\* does.
getRateLimitStatusNoCount(rl, t) ==
    [operation \in DOMAIN rl |->
        LET limit == rl[operation] IN
        [count |-> limit.count,
         maxRequests |-> limit.maxRequests,
         resetTime |-> limit.resetTime,
         timeUntilReset |-> Max(0, limit.resetTime - t),
         isLimited |-> t < limit.resetTime]]

\* getRateLimitStatus at time t
getRateLimitStatus(rl, t) ==
    [operation \in DOMAIN rl |->
        LET limit == rl[operation] IN
        [count |-> limit.count,
         maxRequests |-> limit.maxRequests,
         resetTime |-> limit.resetTime,
         timeUntilReset |-> Max(0, limit.resetTime - t),
         isLimited |-> t < limit.resetTime /\ limit.count >= limit.maxRequests]]

\* getRateLimitStatus() is called.
GetRateLimitStatus ==
    /\ UNCHANGED auth
    /\ query' = [kind |-> "getRateLimitStatus",
                 status |-> getRateLimitStatus(rateLimits, now)]
    /\ UNCHANGED <<now, errorCounts, lastErrors, rateLimits, call, hist, rlHist, classified>>

\* applyRateLimit and getRateLimitStatus alone.
NextRate ==
    \/ \E operation \in OpNames, windowMs \in WindowSet, maxRequests \in MaxRequestsSet :
          ApplyRateLimit(operation, windowMs, maxRequests)
    \/ GetRateLimitStatus
    \/ Tick

SpecRate == Init /\ [][NextRate]_vars

\* getErrorType alone: an error is drawn and then classified.
InitClassify ==
    /\ now = 0
    /\ errorCounts = EmptyMap
    /\ lastErrors = EmptyMap
    /\ rateLimits = EmptyMap
    /\ call = [c \in Calls |-> IdleCall]
    /\ hist = [n \in OpNames \cup {AuthName} |-> NoHist]
    /\ rlHist = [n \in OpNames |-> NoRlHist]
    /\ classified \in {[error |-> e, type |-> ""] : e \in ClassifyErrors}
    /\ query = NoQuery
    /\ auth = NoAuth

Classify ==
    /\ classified.type = ""
    /\ classified' = [classified EXCEPT !.type = getErrorType(classified.error)]
    /\ UNCHANGED <<now, errorCounts, lastErrors, rateLimits, call, hist, rlHist>>
    /\ UNCHANGED auth
    /\ query' = NoQuery

NextClassify == Classify

SpecClassify == InitClassify /\ [][NextClassify]_vars

(***************************************************************************)
(* The delay model: the delay of line 362 for every retry index, with the  *)
(* tracking entries that trackError leaves.                                *)
(***************************************************************************)
BaseDelaySet == {500, 1000, 2000}
DelayMaxDelaySet == {1500, 30000}
DelayJitterSet == {0, 500, 999}
AttemptSet == 0 .. MaxAttempt

\* The options with the baseDelay a caller configures.
DelayOptions == [maxRetries : {MaxAttempt + 1},
                 baseDelay : BaseDelaySet,
                 maxDelay : DelayMaxDelaySet,
                 circuitBreakerThreshold : {5},
                 circuitBreakerTimeout : {60000},
                 operationName : OpNames]

\* The failures tracked in the delay model: network failures of "fetch" and
\* of "fetch_network".
DelayErrors == { MkError(<<"network">>, NoStatus) }

RECURSIVE SumCounts(_, _)
SumCounts(ec, keys) ==
    IF keys = {} THEN 0
    ELSE LET k == CHOOSE x \in keys : TRUE
         IN  ec[k].count + SumCounts(ec, keys \ {k})

\* trackError(operation, error) is called with the object retryOperation
\* makes of a caught error; cap bounds the failures tracked in a behaviour.
TrackError(operation, error, cap) ==
    /\ SumCounts(errorCounts, DOMAIN errorCounts) < cap
    /\ errorCounts' = trackErrorCounts(errorCounts, operation, Tracked(error), now)
    /\ lastErrors' = trackErrorLast(errorCounts, lastErrors, operation, Tracked(error), now)
    /\ UNCHANGED auth
    /\ query' = NoQuery
    /\ UNCHANGED <<now, rateLimits, call, hist, rlHist, classified>>

\* A call with options o computes the delay after its attempt failed.
ComputeDelay(o, attempt, jitter) ==
    /\ UNCHANGED auth
    /\ query' = [kind |-> "delay",
                 o |-> o,
                 attempt |-> attempt,
                 jitter |-> jitter,
                 errorCount |-> IF MapHas(errorCounts, o.operationName)
                                THEN errorCounts[o.operationName].count ELSE 0,
                 delay |-> retryOperationDelay(o, attempt, errorCounts, jitter)]
    /\ UNCHANGED <<now, errorCounts, lastErrors, rateLimits, call, hist, rlHist, classified>>

NextDelay ==
    \/ \E operation \in OpNames, error \in DelayErrors :
          TrackError(operation, error, MaxErrorCount)
    \/ \E o \in DelayOptions, attempt \in AttemptSet, jitter \in DelayJitterSet :
          ComputeDelay(o, attempt, jitter)

SpecDelay == Init /\ [][NextDelay]_vars

(***************************************************************************)
(* The statistics model: trackError, clearErrors and getErrorStats over    *)
(* more than an hour.                                                      *)
(***************************************************************************)
\* const oneHourAgo = Date.now() - 3600000
HourMs == 3600000

\* The clock of the statistics model advances by half an hour.
StatsTickMs == 1800000

MaxStatsTime == MaxStatsTicks * StatsTickMs

\* The operation names of the statistics model; 'oauth_token_exchange' is the
\* name the OAuth callback passes.
StatsNames == OpNames \cup {"oauth_token_exchange"}

StatsErrors == { MkError(<<"network">>, NoStatus), MkError(NoMessage, 404) }

\* clearErrors(): `operation = null`
NoOperation == ""

\* String.prototype.indexOf('_') from position i on; 0 when there is none.
RECURSIVE IndexOfUnderscore(_, _)
IndexOfUnderscore(s, i) ==
    IF i > Len(s) THEN 0
    ELSE IF SubSeq(s, i, i) = "_" THEN i
    ELSE IndexOfUnderscore(s, i + 1)

\* key.split('_')[0]
SplitFirst(key) ==
    LET i == IndexOfUnderscore(key, 1)
    IN  IF i = 0 THEN key ELSE SubSeq(key, 1, i - 1)

\* key.split('_')[1]; "undefined" when the key has no underscore.
SplitSecond(key) ==
    LET i == IndexOfUnderscore(key, 1)
    IN  IF i = 0 THEN "undefined"
        ELSE SplitFirst(SubSeq(key, i + 1, Len(key)))

\* isRecent that also takes a failure exactly one hour old.
isRecentInclusive(errorInfo, oneHourAgo) == errorInfo.timestamp >= oneHourAgo

\* `if (errorInfo.timestamp > oneHourAgo)`
isRecent(errorInfo, oneHourAgo) == errorInfo.timestamp > oneHourAgo

\* getErrorStats at time t.  recentErrors is indexed by the key of lastErrors
\* the record was pushed for.
getErrorStats(ec, le, t) ==
    LET oneHourAgo == t - HourMs
    IN  [totalErrors |-> SumCounts(ec, DOMAIN ec),
         errorsByType |->
             [type \in {SplitSecond(key) : key \in DOMAIN ec} |->
                 SumCounts(ec, {key \in DOMAIN ec : SplitSecond(key) = type})],
         errorsByOperation |->
             [operation \in {SplitFirst(key) : key \in DOMAIN ec} |->
                 SumCounts(ec, {key \in DOMAIN ec : SplitFirst(key) = operation})],
         recentErrors |->
             [key \in {k \in DOMAIN le : isRecent(le[k], oneHourAgo)} |->
                 [operation |-> SplitFirst(key),
                  type |-> SplitSecond(key),
                  message |-> le[key].error.message,
                  timestamp |-> le[key].timestamp,
                  count |-> le[key].count]]]

\* clearErrors(operation): the keys it deletes from both maps
clearErrorsKeys(ec, operation) ==
    IF operation # NoOperation
    THEN {key \in DOMAIN ec : StartsWith(key, operation)}
    ELSE DOMAIN ec

\* clearErrors(operation): errorCounts afterwards
clearErrorsCounts(ec, operation) ==
    [key \in DOMAIN ec \ clearErrorsKeys(ec, operation) |-> ec[key]]

\* clearErrorsLast that empties lastErrors whatever the operation.
clearErrorsLastAll(ec, le, operation) == EmptyMap

\* clearErrors(operation): lastErrors afterwards
clearErrorsLast(ec, le, operation) ==
    IF operation # NoOperation
    THEN [key \in DOMAIN le \ clearErrorsKeys(ec, operation) |-> le[key]]
    ELSE EmptyMap

\* The errors getUserFriendlyMessage is asked about: one or two of every type.
FriendlyErrors ==
    { MkError(<<"rate limit">>, NoStatus),
      MkError(<<"network">>, 401),
      MkError(<<"authentication">>, NoStatus),
      MkError(<<"Bad credentials">>, 401),
      MkError(NoMessage, 403),
      MkError(NoMessage, 404),
      MkError(NoMessage, 429),
      MkError(NoMessage, 500),
      MkError(NoMessage, 503),
      MkError(<<"Bad credentials">>, 200),
      MkError(NoMessage, NoStatus) }

\* const messages = {...}
messages ==
    [rate_limit |-> "GitHub API rate limit exceeded. Please wait a few minutes before trying again.",
     network |-> "Network connection failed. Please check your internet connection.",
     auth |-> "Authentication failed. Please log in again.",
     permission |-> "Permission denied. You don't have access to this resource.",
     not_found |-> "Resource not found. Please check the repository or file path.",
     server |-> "GitHub server error. Please try again later.",
     general |-> "An unexpected error occurred. Please try again."]

\* getUserFriendlyMessage that tells a 503 from the other server errors.
getUserFriendlyMessageByStatus(error) ==
    LET errorType == getErrorType(error)
    IN  IF error.status = 503 THEN "GitHub is unavailable. Please try again later."
        ELSE IF errorType \in DOMAIN messages THEN messages[errorType]
        ELSE messages.general

\* return messages[errorType] || messages.general
getUserFriendlyMessage(error) ==
    LET errorType == getErrorType(error)
    IN  IF errorType \in DOMAIN messages THEN messages[errorType]
        ELSE messages.general

\* getFriendlyErrorMessage(error) is called.
GetFriendlyMessage(error) ==
    /\ UNCHANGED auth
    /\ query' = [kind |-> "getUserFriendlyMessage",
                 error |-> error,
                 message |-> getUserFriendlyMessage(error)]
    /\ UNCHANGED <<now, errorCounts, lastErrors, rateLimits, call, hist, rlHist, classified>>

\* getErrorStats() is called.
GetErrorStats ==
    /\ UNCHANGED auth
    /\ query' = [kind |-> "getErrorStats",
                 stats |-> getErrorStats(errorCounts, lastErrors, now)]
    /\ UNCHANGED <<now, errorCounts, lastErrors, rateLimits, call, hist, rlHist, classified>>

\* clearErrors(operation) is called; NoOperation is the call without argument.
ClearErrors(operation) ==
    /\ errorCounts' = clearErrorsCounts(errorCounts, operation)
    /\ lastErrors' = clearErrorsLast(errorCounts, lastErrors, operation)
    /\ UNCHANGED auth
    /\ query' = [kind |-> "clearErrors", operation |-> operation]
    /\ UNCHANGED <<now, rateLimits, call, hist, rlHist, classified>>

\* Half an hour passes.
StatsTick ==
    /\ now + StatsTickMs <= MaxStatsTime
    /\ now' = now + StatsTickMs
    /\ UNCHANGED auth
    /\ query' = NoQuery
    /\ UNCHANGED <<errorCounts, lastErrors, rateLimits, call, hist, rlHist, classified>>

NextStats ==
    \/ \E operation \in StatsNames, error \in StatsErrors :
          TrackError(operation, error, MaxTracked)
    \/ \E operation \in StatsNames \cup {NoOperation} : ClearErrors(operation)
    \/ \E operation \in {"fetch"}, windowMs \in LimitWindowSet, maxRequests \in LimitMaxRequestsSet :
          ApplyRateLimit(operation, windowMs, maxRequests)
    \/ GetErrorStats
    \/ StatsTick

SpecStats == Init /\ [][NextStats]_vars

\* The message model: getFriendlyErrorMessage next to trackError,
\* applyRateLimit and the clock.
NextFriendly ==
    \/ \E operation \in {"fetch"}, error \in DelayErrors :
          TrackError(operation, error, MaxTracked)
    \/ \E operation \in {"fetch"}, windowMs \in LimitWindowSet, maxRequests \in LimitMaxRequestsSet :
          ApplyRateLimit(operation, windowMs, maxRequests)
    \/ \E error \in FriendlyErrors : GetFriendlyMessage(error)
    \/ Tick

SpecFriendly == Init /\ [][NextFriendly]_vars

\* The tracking model: calls of retryOperation, which record failures and
\* delete entries, next to clearErrors and the clock.
NextTrack ==
    \/ CallStep(LimitOptions, LimitValues, OpErrors, LimitJitterSet)
    \/ \E operation \in OpNames \cup {NoOperation} : ClearErrors(operation)
    \/ Tick

SpecTrack == Init /\ [][NextTrack]_vars

\* checkRateLimit that drops the window it finds expired.
checkRateLimitPrunes(rl, operation, t) ==
    [rateLimits |-> IF MapHas(rl, operation) /\ t >= rl[operation].resetTime
                    THEN MapDelete(rl, operation) ELSE rl,
     ret |-> isRateLimited(rl, operation, t)]

\* checkRateLimit(operation): the rateLimits map after the call and the
\* value returned
checkRateLimit(rl, operation, t) ==
    [rateLimits |-> rl, ret |-> isRateLimited(rl, operation, t)]

\* checkRateLimit(operation) is called.
CheckRateLimit(operation) ==
    LET res == checkRateLimit(rateLimits, operation, now)
    IN  /\ rateLimits' = res.rateLimits
        /\ UNCHANGED auth
        /\ query' = [kind |-> "isRateLimited", operation |-> operation, ret |-> res.ret]
        /\ UNCHANGED <<now, errorCounts, lastErrors, call, hist, rlHist, classified>>

\* The read model: the four reading operations next to trackError,
\* applyRateLimit and the clock.
NextRead ==
    \/ \E operation \in {"fetch"}, error \in DelayErrors :
          TrackError(operation, error, MaxTracked)
    \/ \E operation \in {"fetch"}, windowMs \in LimitWindowSet, maxRequests \in LimitMaxRequestsSet :
          ApplyRateLimit(operation, windowMs, maxRequests)
    \/ GetErrorStats
    \/ GetRateLimitStatus
    \/ \E operation \in OpNames : CheckRateLimit(operation)
    \/ \E error \in FriendlyErrors : GetFriendlyMessage(error)
    \/ Tick

SpecRead == Init /\ [][NextRead]_vars

(***************************************************************************)
(* The start-up model: AuthProvider is rendered, its effect runs            *)
(* initializeAuth, which fetches the user through retryOperation (call 1).  *)
(***************************************************************************)
\* What localStorage holds when the app starts.
TokenSet == {NoToken, "ghp_token"}

\* The options fetchUser passes; the others are the defaults.
AuthOptions == [maxRetries |-> 3,
                maxDelay |-> 30000,
                circuitBreakerThreshold |-> 5,
                circuitBreakerTimeout |-> 60000,
                operationName |-> AuthName]

\* What users.getAuthenticated() rejects with.
AuthErrors ==
    { MkError(<<"network">>, NoStatus),
      MkError(<<"Bad credentials">>, 401),
      MkError(NoMessage, 403) }

\* The call of retryOperation that fetchUser makes.
AuthCall == 1

\* logout()
logout(a) ==
    [a EXCEPT !.stored = NoToken, !.token = NoToken, !.user = "", !.octokit = NoToken,
              !.loading = FALSE]

\* fetchUserSettled that neither cleans up nor resets loading when the fetch
\* failed.
fetchUserSettledSuccessOnly(a, r) ==
    IF r.outcome = "returned"
    THEN [a EXCEPT !.user = r.result, !.loading = FALSE, !.pc = "idle"]
    ELSE [a EXCEPT !.pc = "idle"]

\* fetchUser after `await withErrorHandling(...)` settled, and the finally of
\* initializeAuth after it: setUser(data), or logout(); setLoading(false)
\* twice.  The effect runs again when logout changed the token.
fetchUserSettled(a, r) ==
    IF r.outcome = "returned"
    THEN [a EXCEPT !.user = r.result, !.loading = FALSE, !.pc = "idle"]
    ELSE [logout(a) EXCEPT !.loading = FALSE,
                           !.pc = IF a.token # NoToken THEN "effect" ELSE "idle"]

InitAuth ==
    /\ now = 0
    /\ errorCounts = EmptyMap
    /\ lastErrors = EmptyMap
    /\ rateLimits = EmptyMap
    /\ call = [c \in Calls |-> IdleCall]
    /\ hist = [n \in OpNames \cup {AuthName} |-> NoHist]
    /\ rlHist = [n \in OpNames |-> NoRlHist]
    /\ classified = NotClassified
    /\ query = NoQuery
    /\ auth \in {MountedAuth(token) : token \in TokenSet}

\* The effect of AuthProvider runs initializeAuth: with a token it creates the
\* Octokit instance and calls fetchUser, which enters retryOperation; without
\* one it ends the loading.
InitializeAuth ==
    /\ auth.pc = "effect"
    /\ IF auth.token # NoToken
       THEN /\ call[AuthCall].pc = "idle"
            /\ auth' = [auth EXCEPT !.octokit = auth.token, !.pc = "fetchUser"]
            /\ call' = [call EXCEPT ![AuthCall] =
                           retryOperationStart(IdleCall, AuthOptions, errorCounts,
                                               rateLimits, now)]
            /\ errorCounts' = retryOperationStartCounts(AuthOptions, errorCounts, now)
       ELSE /\ auth' = [auth EXCEPT !.loading = FALSE, !.pc = "idle"]
            /\ UNCHANGED <<call, errorCounts>>
    /\ query' = NoQuery
    /\ UNCHANGED <<now, lastErrors, rateLimits, hist, rlHist, classified>>

\* The retryOperation call of fetchUser has returned or raised: fetchUser
\* and initializeAuth run to their end.
FetchUserSettles ==
    /\ auth.pc = "fetchUser"
    /\ call[AuthCall].pc = "done"
    /\ auth' = fetchUserSettled(auth, call[AuthCall])
    /\ query' = NoQuery
    /\ UNCHANGED <<now, errorCounts, lastErrors, rateLimits, call, hist, rlHist, classified>>

\* The request of fetchUser completes: it resolves or it rejects.
RequestCompletes ==
    \/ \E value \in Values : OpSucceeds(AuthCall, value)
    \/ \E error \in AuthErrors, jitter \in JitterSet : OpFails(AuthCall, error, jitter)

NextAuth ==
    \/ InitializeAuth
    \/ RequestCompletes
    \/ TimerFires(AuthCall)
    \/ FetchUserSettles
    \/ Tick
    \/ Elapse

\* The start-up in which the request of fetchUser completes, the timers of
\* its retries fire and the continuations of AuthProvider run.
SpecAuth ==
    /\ InitAuth
    /\ [][NextAuth]_vars
    /\ WF_vars(InitializeAuth)
    /\ WF_vars(RequestCompletes)
    /\ WF_vars(TimerFires(AuthCall))
    /\ WF_vars(FetchUserSettles)
    /\ WF_vars(Elapse)

(***************************************************************************)
(* The login model: AuthProvider is rendered without a token and           *)
(* login(githubToken) is called once.  Its fetchUser goes through          *)
(* retryOperation as call 2; the effect that the new token triggers        *)
(* fetches the user as well, as call 1.                                    *)
(***************************************************************************)
\* The tokens login is called with.
LoginTokens == {"ghp_token"}

\* The call of retryOperation that the fetchUser of login makes.
LoginCall == 2

\* `await new Promise(resolve => setTimeout(resolve, 100))`
loginDelay == 100

\* fetchUser(octokitInstance) as login sees it: the promise it returns
\* rejects.  The catch block of fetchUser logs, calls logout() and does not
\* throw again, so the promise is fulfilled whatever withErrorHandling did.
fetchUserRejects(r) == FALSE

\* login from its entry to its first await: logout(), then the timer.
loginStart(a, githubToken, t) ==
    [logout(a) EXCEPT !.login = "delay",
                      !.loginToken = githubToken,
                      !.loginWakeAt = t + loginDelay]

\* login after the timer, up to `await fetchUser(octokitInstance)`: the token
\* is stored and set, the Octokit instance is created, the user is cleared.
\* The token has changed, so the effect will run.
loginContinue(a) ==
    [a EXCEPT !.stored = a.loginToken,
              !.token = a.loginToken,
              !.octokit = a.loginToken,
              !.user = "",
              !.login = "fetchUser",
              !.pc = IF a.token # a.loginToken THEN "effect" ELSE a.pc]

\* The fetchUser of login after its `await withErrorHandling(...)` settled:
\* setUser(data), or logout(); then setLoading(false).  The effect runs again
\* when logout changed the token and no run of it is under way.
loginFetchUserSettled(a, r) ==
    IF r.outcome = "returned"
    THEN [a EXCEPT !.user = r.result, !.loading = FALSE]
    ELSE [logout(a) EXCEPT !.loading = FALSE,
                           !.pc = IF a.pc = "idle" /\ a.token # NoToken
                                  THEN "effect" ELSE a.pc]

\* login after `await fetchUser(octokitInstance)`: `return true`, or the catch
\* block with logout() and `throw new Error(friendlyMessage)`.
loginSettled(a, r) ==
    LET b == loginFetchUserSettled(a, r) IN
    IF fetchUserRejects(r)
    THEN [logout(b) EXCEPT !.login = "rejected",
                           !.loginError = getUserFriendlyMessage(r.thrown)]
    ELSE [b EXCEPT !.login = "resolved"]

InitLogin ==
    /\ InitAuth
    /\ auth.token = NoToken

\* login(githubToken) is called, once the start-up has ended.
Login(githubToken) ==
    /\ auth.pc = "idle"
    /\ auth.login = "none"
    /\ auth' = loginStart(auth, githubToken, now)
    /\ query' = NoQuery
    /\ UNCHANGED <<now, errorCounts, lastErrors, rateLimits, call, hist, rlHist, classified>>

\* The timer of login fires: login goes on and calls fetchUser, which enters
\* retryOperation.
LoginContinues ==
    /\ auth.login = "delay"
    /\ now >= auth.loginWakeAt
    /\ call[LoginCall].pc = "idle"
    /\ auth' = loginContinue(auth)
    /\ call' = [call EXCEPT ![LoginCall] =
                   retryOperationStart(IdleCall, AuthOptions, errorCounts, rateLimits, now)]
    /\ errorCounts' = retryOperationStartCounts(AuthOptions, errorCounts, now)
    /\ query' = NoQuery
    /\ UNCHANGED <<now, lastErrors, rateLimits, hist, rlHist, classified>>

\* The retryOperation call of login's fetchUser has returned or raised:
\* fetchUser and login run to their end.
LoginFetchSettles ==
    /\ auth.login = "fetchUser"
    /\ call[LoginCall].pc = "done"
    /\ auth' = loginSettled(auth, call[LoginCall])
    /\ query' = NoQuery
    /\ UNCHANGED <<now, errorCounts, lastErrors, rateLimits, call, hist, rlHist, classified>>

\* A request of users.getAuthenticated() completes: it resolves or it rejects.
LoginRequestCompletes ==
    \/ \E c \in Calls, value \in LimitValues : OpSucceeds(c, value)
    \/ \E c \in Calls, error \in AuthErrors, jitter \in LimitJitterSet : OpFails(c, error, jitter)

NextLogin ==
    \/ \E githubToken \in LoginTokens : Login(githubToken)
    \/ LoginContinues
    \/ LoginFetchSettles
    \/ InitializeAuth
    \/ FetchUserSettles
    \/ LoginRequestCompletes
    \/ \E c \in Calls : TimerFires(c)
    \/ Tick

SpecLogin == InitLogin /\ [][NextLogin]_vars

TypeOK ==
    /\ now \in Nat
    /\ \A c \in Calls : call[c].pc \in {"idle", "awaitOp", "backoff", "done"}

(***************************************************************************)
(* Vocabulary of the properties.                                           *)
(***************************************************************************)
ErrorTypes == {"rate_limit", "network", "auth", "permission", "not_found", "server", "general"}

NonRetryableTypes == {"auth", "permission", "not_found"}

RetryableTypes == ErrorTypes \ NonRetryableTypes

\* Call c begins in this step.
Starts(c) == call[c].pc = "idle" /\ call'[c].pc # "idle"

\* Call c was rejected by the circuit check.
CircuitRejected(r) ==
    /\ r.pc = "done"
    /\ r.outcome = "raised"
    /\ r.thrown = CircuitOpenError(r.o.operationName)
    /\ r.invocations = 0

\* The error is the rate-limit error of retryOperation.
IsRateLimitError(error) ==
    /\ error.defined
    /\ Len(error.message) >= 1
    /\ error.message[1] = "Rate limit exceeded for "

\* Call c was rejected by the rate-limit check, with the given reset time.
RateRejected(r, resetTime) ==
    /\ r.pc = "done"
    /\ r.outcome = "raised"
    /\ r.thrown = RateLimitError(r.o.operationName, resetTime)
    /\ r.invocations = 0

\* Call c ended by raising what its last invocation raised (or the initial
\* value of lastError when there was none).
RaisedLastError(r) ==
    /\ r.pc = "done"
    /\ r.outcome = "raised"
    /\ r.thrown = r.lastError

(***************************************************************************)
(* Properties.                                                             *)
(***************************************************************************)
\* C1: once circuitBreakerThreshold failures have been recorded by
\* retryOperation for an operation name, with no success or clear in between,
\* a call for that name that starts less than circuitBreakerTimeout after
\* the last of them fails at once with the circuit-breaker error and does
\* not invoke the operation.
C1_CircuitOpens ==
    [][\A c \in Calls :
         LET o == call'[c].o IN
         (/\ Starts(c)
          /\ hist[o.operationName].fails >= o.circuitBreakerThreshold
          /\ now - hist[o.operationName].lastFail < o.circuitBreakerTimeout)
         => CircuitRejected(call'[c])]_vars

\* C2: a failure classified auth, permission or not_found ends the call at
\* once: the error is re-raised, no backoff starts, and when it is the first
\* failure the operation was invoked exactly once.
C2_NonRetryableOnce ==
    \A c \in Calls :
        (/\ call[c].lastError.defined
         /\ getErrorType(call[c].lastError) \in NonRetryableTypes)
        => /\ RaisedLastError(call[c])
           /\ call[c].failures = 1 => call[c].invocations = 1

\* C3: a call never invokes the operation more than maxRetries + 1 times, and
\* a call that passed the circuit and rate-limit checks and saw only
\* retryable failures raises after exactly maxRetries + 1 invocations.
C3_RetryCount ==
    \A c \in Calls :
        /\ call[c].invocations <= Max(call[c].o.maxRetries + 1, 0)
        /\ (/\ RaisedLastError(call[c])
            /\ call[c].lastError.defined =>
                   getErrorType(call[c].lastError) \in RetryableTypes)
           => call[c].invocations = call[c].o.maxRetries + 1

\* C3, witness: a call with maxRetries >= 1 gave up on a retryable error.
C3_Witness ==
    \E c \in Calls :
        /\ RaisedLastError(call[c])
        /\ call[c].lastError.defined
        /\ getErrorType(call[c].lastError) \in RetryableTypes
        /\ call[c].o.maxRetries >= 1
        /\ call[c].invocations = call[c].o.maxRetries + 1

\* C4: right after a call for an operation name returns, errorCounts holds
\* no entry of that name under any error type, and the entries of the other
\* names are as they were.
C4_SuccessClears ==
    [][\A c \in Calls :
         (call[c].pc = "awaitOp" /\ call'[c].outcome = "returned")
         => /\ \A type \in ErrorTypes :
                  ~MapHas(errorCounts', TrackKey(call[c].o.operationName, type))
            /\ \A n \in OpNames \ {call[c].o.operationName}, type \in ErrorTypes :
                  /\ MapHas(errorCounts', TrackKey(n, type))
                        = MapHas(errorCounts, TrackKey(n, type))
                  /\ MapHas(errorCounts, TrackKey(n, type))
                        => errorCounts'[TrackKey(n, type)] = errorCounts[TrackKey(n, type)]]_vars

\* C5: a call that returns gives back the value its successful invocation
\* resolved with, after exactly (failed invocations + 1) invocations and at
\* most maxRetries failures, and nothing of the call changes afterwards.
C5_RetryUntilSuccess ==
    /\ [](\A c \in Calls :
            call[c].outcome = "returned"
            => /\ call[c].pc = "done"
               /\ call[c].result = call[c].resolved
               /\ call[c].invocations = call[c].failures + 1
               /\ call[c].failures <= call[c].o.maxRetries)
    /\ [][\A c \in Calls : call[c].pc = "done" => call'[c] = call[c]]_vars

\* C5, witness: a call returned after a failed first attempt.
C5_Witness ==
    \E c \in Calls :
        /\ call[c].outcome = "returned"
        /\ call[c].failures >= 1
        /\ call[c].result \in Values

\* The call that starts in this step finds the breaker of its name at or
\* above the threshold, the timeout passed.
StartsCooled(c) == Starts(c) /\ circuitCooled(errorCounts, call'[c].o, now)

\* C6 as claimed: a call that starts when the circuit of its name is open and
\* the timeout has passed is not rejected by the circuit check, clears the
\* entry that opened the circuit, and makes a single invocation.
C6_HalfOpenOnce ==
    [][\A c \in Calls :
         /\ StartsCooled(c)
              => /\ ~CircuitRejected(call'[c])
                 /\ ~MapHas(errorCounts', call'[c].o.operationName)
         /\ call[c].halfOpen => call'[c].invocations <= 1]_vars

\* C6, amended: such a call is not rejected by the circuit check, deletes the
\* entry that opened the circuit and goes on as any other call: unless the
\* rate-limit check rejects it, it invokes the operation, up to maxRetries + 1
\* times.
C6_ResetAfterCooldown ==
    [][\A c \in Calls :
         /\ StartsCooled(c)
              => /\ ~CircuitRejected(call'[c])
                 /\ ~MapHas(errorCounts', call'[c].o.operationName)
                 /\ call'[c].halfOpen
                 /\ (call'[c].o.maxRetries >= 0
                       /\ ~isRateLimited(rateLimits, call'[c].o.operationName, now))
                    => (call'[c].pc = "awaitOp" /\ call'[c].invocations = 1)
         /\ call[c].halfOpen
              => call'[c].invocations <= call'[c].o.maxRetries + 1]_vars

\* C6, witness: a call that started after the cooldown has invoked the
\* operation twice.
C6_Witness ==
    \E c \in Calls : call[c].halfOpen /\ call[c].invocations = 2

\* C7 as claimed: a call that starts while its operation name has a window
\* with resetTime > now fails at once with the rate-limit error naming that
\* reset time, without an invocation; otherwise the call does not end with a
\* rate-limit error.
C7_RateLimitFastFail ==
    [][\A c \in Calls :
         Starts(c) =>
           LET n == call'[c].o.operationName IN
           IF MapHas(rateLimits, n) /\ rateLimits[n].resetTime > now
           THEN RateRejected(call'[c], rateLimits[n].resetTime)
           ELSE ~IsRateLimitError(call'[c].thrown)]_vars

\* C7, amended: the same, unless the circuit check, which comes first,
\* rejects the call: then the call fails with the circuit-breaker error,
\* again without an invocation.
C7_RateLimitAfterCircuit ==
    [][\A c \in Calls :
         Starts(c) =>
           LET n == call'[c].o.operationName IN
           IF MapHas(rateLimits, n) /\ rateLimits[n].resetTime > now
           THEN IF circuitOpen(errorCounts, call'[c].o, now)
                THEN CircuitRejected(call'[c])
                ELSE RateRejected(call'[c], rateLimits[n].resetTime)
           ELSE ~IsRateLimitError(call'[c].thrown)]_vars

\* C7, witness: a call was rejected by the rate-limit check.
C7_Witness ==
    \E c \in Calls :
        /\ call[c].pc = "done"
        /\ IsRateLimitError(call[c].thrown)
        /\ call[c].invocations = 0

\* C8: with m >= 1 the maxRequests the window of an operation name was
\* created with, the call of applyRateLimit that is the k-th of the current
\* window returns true exactly when k > m; and a call at or after resetTime
\* returns false and restarts the window with count 1 and
\* resetTime = now + windowMs.
C8_WindowSequence ==
    /\ [](\A n \in DOMAIN rateLimits :
            rateLimits[n].maxRequests >= 1
            => rlHist[n].ret = (rlHist[n].calls > rateLimits[n].maxRequests))
    /\ [][\A n \in DOMAIN rateLimits :
            (now >= rateLimits[n].resetTime /\ rlHist'[n] # rlHist[n])
            => /\ rlHist'[n].ret = FALSE
               /\ rlHist'[n].calls = 1
               /\ rateLimits'[n].count = 1
               /\ rateLimits'[n].resetTime = now + rlHist'[n].windowMs]_vars

\* C8, witness: with maxRequests = 2 the third call of a window returned
\* true, and the call after it, made when the window had elapsed, false.
C8_Witness ==
    \E n \in DOMAIN rateLimits :
        /\ rateLimits[n].maxRequests = 2
        /\ rlHist[n].prevRet = TRUE
        /\ rlHist[n].ret = FALSE
        /\ rlHist[n].calls = 1

\* C9: a call that has ended either returned the value of an invocation that
\* succeeded, or raised a defined error: the circuit-breaker error, the
\* rate-limit error, or the error its last invocation raised.
C9_NoUndefinedOutcome ==
    \A c \in Calls :
        call[c].pc = "done"
        => \/ /\ call[c].outcome = "returned"
              /\ call[c].invocations >= 1
              /\ call[c].resolved \in Values
              /\ call[c].result = call[c].resolved
           \/ /\ call[c].outcome = "raised"
              /\ call[c].thrown.defined
              /\ \/ call[c].thrown = CircuitOpenError(call[c].o.operationName)
                 \/ IsRateLimitError(call[c].thrown)
                 \/ call[c].failures >= 1 /\ call[c].thrown = call[c].lastError

\* The type the status alone gives.
StatusType(status) ==
    CASE status = 401 -> "auth"
      [] status = 403 -> "permission"
      [] status = 404 -> "not_found"
      [] status = 429 -> "rate_limit"
      [] status >= 500 -> "server"
      [] OTHER -> "general"

\* C10: getErrorType gives every error one type of the taxonomy: the first
\* of 'rate limit', 'network', 'authentication', 'permission' found in the
\* message decides (rate_limit, network, auth, permission), whatever the
\* status; with none of them in the message the status decides; an error
\* without message and status is general.
C10_Precedence ==
    classified.type # "" =>
        LET m == classified.error.message
            type == classified.type
        IN  /\ type \in ErrorTypes
            /\ Includes(m, "rate limit") => type = "rate_limit"
            /\ (~Includes(m, "rate limit") /\ Includes(m, "network")) => type = "network"
            /\ (~Includes(m, "rate limit") /\ ~Includes(m, "network")
                  /\ Includes(m, "authentication")) => type = "auth"
            /\ (~Includes(m, "rate limit") /\ ~Includes(m, "network")
                  /\ ~Includes(m, "authentication") /\ Includes(m, "permission"))
               => type = "permission"
            /\ (\A f \in {"rate limit", "network", "authentication", "permission"} :
                  ~Includes(m, f))
               => type = StatusType(classified.error.status)
            /\ (m = NoMessage /\ classified.error.status = NoStatus) => type = "general"

\* C10, witness: a 401 whose message contains 'network' was classified network.
C10_Witness ==
    /\ classified.error.status = 401
    /\ Includes(classified.error.message, "network")
    /\ ~Includes(classified.error.message, "rate limit")
    /\ classified.type = "network"

\* C11: the delay a call waits after attempt a failed lies between
\* baseDelay * 2^a and baseDelay * 2^a + 1000, with baseDelay the one
\* configured in its options, both ends cut at maxDelay, times
\* (1 + min(errorCount, 5) * 0.1); so it never exceeds
\* maxDelay * (1 + min(errorCount, 5) * 0.1).  (Delays in ms/10.)
C11_BackoffBounds ==
    query.kind = "delay" =>
        LET multiplier == 10 + Min(query.errorCount, 5)
            low == query.o.baseDelay * Pow2(query.attempt)
        IN  /\ query.delay >= Min(low, query.o.maxDelay) * multiplier
            /\ query.delay <= Min(low + 1000, query.o.maxDelay) * multiplier
            /\ query.delay <= query.o.maxDelay * multiplier

\* C12: when a call for operation name N goes into backoff after a failed
\* attempt, the delay is min(1000 * 2^attempt + jitter, maxDelay) times
\* (1 + min(c, 5) * 0.1), with c >= 1 the count of the tracking entry the
\* failure was just recorded in.  (Delays in ms/10.)
C12_HistoryPenalty ==
    [][\A c \in Calls :
         (call[c].pc = "awaitOp" /\ call'[c].pc = "backoff")
         => LET key == TrackKey(call[c].o.operationName, getErrorType(call'[c].lastError))
                count == errorCounts'[key].count
                delay == call'[c].wakeAt - 10 * now
            IN  /\ count >= 1
                /\ \E jitter \in JitterSet :
                      delay = Min(baseDelay * Pow2(call[c].attempt) + jitter,
                                  call[c].o.maxDelay) * (10 + Min(count, 5))]_vars

\* The sum of the values of a map of numbers.
RECURSIVE SumValues(_, _)
SumValues(m, keys) ==
    IF keys = {} THEN 0
    ELSE LET k == CHOOSE x \in keys : TRUE
         IN  m[k] + SumValues(m, keys \ {k})

\* C13: getErrorStats called at time t lists in recentErrors no failure whose
\* timestamp is at or before t - 3600000, while totalErrors is the sum of the
\* counts of all tracking entries, whatever their age, and the counts by
\* type and the counts by operation each add up to it.
C13_RecentWindow ==
    query.kind = "getErrorStats" =>
        LET stats == query.stats IN
        /\ \A key \in DOMAIN stats.recentErrors :
              /\ key \in DOMAIN lastErrors
              /\ stats.recentErrors[key].timestamp = lastErrors[key].timestamp
              /\ ~(lastErrors[key].timestamp <= now - HourMs)
        /\ stats.totalErrors = SumCounts(errorCounts, DOMAIN errorCounts)
        /\ SumValues(stats.errorsByType, DOMAIN stats.errorsByType) = stats.totalErrors
        /\ SumValues(stats.errorsByOperation, DOMAIN stats.errorsByOperation)
              = stats.totalErrors

\* C13, witness: statistics taken when one tracked failure is exactly an hour
\* old and another is newer: the old one is counted but not listed.
C13_Witness ==
    /\ query.kind = "getErrorStats"
    /\ \E old \in DOMAIN lastErrors :
          /\ lastErrors[old].timestamp = now - HourMs
          /\ old \in DOMAIN errorCounts
          /\ old \notin DOMAIN query.stats.recentErrors
    /\ query.stats.recentErrors # EmptyMap
    /\ query.stats.totalErrors = 2

\* The value of a map of numbers at a key, 0 when the key is missing.
ValueAt(m, key) == IF key \in DOMAIN m THEN m[key] ELSE 0

\* The tracking entries of an operation name, and those of an error type.
EntriesOfOperation(operation) ==
    {TrackKey(operation, type) : type \in ErrorTypes} \cap DOMAIN errorCounts

EntriesOfType(type) ==
    {TrackKey(operation, type) : operation \in StatsNames} \cap DOMAIN errorCounts

\* C14: getErrorStats reports for every operation name the sum of the counts
\* of the tracking entries of that name, for every error type the sum of the
\* counts of the entries of that type, and as totalErrors the sum of all
\* counts.
C14_StatsGrouping ==
    query.kind = "getErrorStats" =>
        LET stats == query.stats IN
        /\ \A operation \in StatsNames :
              ValueAt(stats.errorsByOperation, operation)
                 = SumCounts(errorCounts, EntriesOfOperation(operation))
        /\ \A type \in ErrorTypes :
              ValueAt(stats.errorsByType, type)
                 = SumCounts(errorCounts, EntriesOfType(type))
        /\ stats.totalErrors = SumCounts(errorCounts, DOMAIN errorCounts)

\* The entry a map holds at a key, or that it holds none: equal for two maps
\* when the key is missing in both or carries the same record in both.
SameEntry(m1, m2, key) ==
    /\ (key \in DOMAIN m1) = (key \in DOMAIN m2)
    /\ key \in DOMAIN m1 => m1[key] = m2[key]

\* C15: clearErrors(N) removes from errorCounts and from lastErrors every
\* entry recorded for the operation name N and no entry recorded for another
\* name; clearErrors() empties both maps; neither changes a rate-limit
\* window.
C15_ClearScope ==
    [][query'.kind = "clearErrors" =>
         /\ rateLimits' = rateLimits
         /\ IF query'.operation = NoOperation
            THEN errorCounts' = EmptyMap /\ lastErrors' = EmptyMap
            ELSE \A operation \in StatsNames, type \in ErrorTypes :
                    LET key == TrackKey(operation, type) IN
                    IF operation = query'.operation
                    THEN key \notin DOMAIN errorCounts' /\ key \notin DOMAIN lastErrors'
                    ELSE /\ SameEntry(errorCounts', errorCounts, key)
                         /\ SameEntry(lastErrors', lastErrors, key)]_vars

\* C16: the string getUserFriendlyMessage returns for an error is the one it
\* returns for every error of the same type, it is one of seven strings, and
\* asking for it changes nothing of the tracking, rate-limit or call state.
C16_FriendlyByType ==
    /\ [](query.kind = "getUserFriendlyMessage" =>
            /\ \A other \in FriendlyErrors :
                  getErrorType(other) = getErrorType(query.error)
                  => getUserFriendlyMessage(other) = query.message
            /\ query.message \in {messages[type] : type \in ErrorTypes}
            /\ \A type \in ErrorTypes :
                  (messages[type] = query.message) = (type = getErrorType(query.error)))
    /\ [][query'.kind = "getUserFriendlyMessage" =>
            UNCHANGED <<now, errorCounts, lastErrors, rateLimits, call>>]_vars

\* C16, witness: the message of a 503 was asked for while failures were
\* tracked and a rate-limit window was open; it is the server message.
C16_Witness ==
    /\ query.kind = "getUserFriendlyMessage"
    /\ query.error.status = 503
    /\ query.message = messages.server
    /\ errorCounts # EmptyMap
    /\ rateLimits # EmptyMap

\* C17: getRateLimitStatus called at time t returns a record for exactly the
\* operation names that have a window, with the count, maxRequests and
\* resetTime of the window, timeUntilReset = max(0, resetTime - t), and
\* isLimited true exactly when t < resetTime and count >= maxRequests; the
\* windows are left as they are.
C17_RateLimitStatus ==
    /\ [](query.kind = "getRateLimitStatus" =>
            /\ DOMAIN query.status = DOMAIN rateLimits
            /\ \A n \in DOMAIN rateLimits :
                  LET record == query.status[n] IN
                  /\ record.count = rateLimits[n].count
                  /\ record.maxRequests = rateLimits[n].maxRequests
                  /\ record.resetTime = rateLimits[n].resetTime
                  /\ record.timeUntilReset =
                        (IF rateLimits[n].resetTime > now
                         THEN rateLimits[n].resetTime - now ELSE 0)
                  /\ record.isLimited =
                        (now < rateLimits[n].resetTime
                           /\ rateLimits[n].count >= rateLimits[n].maxRequests))
    /\ [][query'.kind = "getRateLimitStatus" => rateLimits' = rateLimits]_vars

\* C17, witness: a report with a window that is full and open (limited), a
\* window that is open and not full (not limited, time left).
C17_Witness ==
    /\ query.kind = "getRateLimitStatus"
    /\ \E n \in DOMAIN query.status :
          query.status[n].isLimited /\ query.status[n].timeUntilReset > 0
    /\ \E n \in DOMAIN query.status :
          /\ ~query.status[n].isLimited
          /\ query.status[n].timeUntilReset > 0
          /\ query.status[n].count < query.status[n].maxRequests

\* C18: when every invocation settles and every backoff timer fires, a call
\* that has started ends, by returning or raising; it never makes more than
\* maxRetries + 1 invocations nor more than maxRetries backoff waits (the
\* waits of a call are its attempt index, plus one while it is waiting).
C18_Termination ==
    /\ \A c \in Calls : (call[c].pc # "idle") ~> (call[c].pc = "done")
    /\ [](\A c \in Calls :
            /\ call[c].invocations <= Max(call[c].o.maxRetries + 1, 0)
            /\ call[c].attempt <= Max(call[c].o.maxRetries, 0)
            /\ call[c].pc = "backoff" => call[c].attempt + 1 <= call[c].o.maxRetries
            /\ call[c].pc = "done" => call[c].outcome \in {"returned", "raised"})

\* C18, witness: a call has ended after a backoff wait, having used all its
\* attempts.
C18_Witness ==
    \E c \in Calls :
        /\ call[c].pc = "done"
        /\ call[c].o.maxRetries >= 1
        /\ call[c].attempt = call[c].o.maxRetries
        /\ call[c].invocations = call[c].o.maxRetries + 1

\* Invocations of call r that have not settled.
InFlight(r) ==
    r.invocations - r.failures - (IF r.outcome = "returned" THEN 1 ELSE 0)

\* C19: a call has at most one invocation in flight, whatever the other calls
\* do.  A failed attempt that is retried sets the timer to the time of the
\* failure plus the delay computed for it; a further invocation is made only
\* from the backoff, when every earlier invocation has failed, the last
\* failure is in lastErrors, and the time the timer was set to has come.
C19_Sequential ==
    /\ [](\A c \in Calls :
            /\ InFlight(call[c]) \in {0, 1}
            /\ (InFlight(call[c]) = 1) = (call[c].pc = "awaitOp"))
    /\ [][\A c \in Calls :
            /\ (call[c].pc = "awaitOp" /\ call'[c].pc = "backoff")
               => \E jitter \in JitterSet :
                     call'[c].wakeAt = 10 * now
                        + retryOperationDelay(call[c].o, call[c].attempt, errorCounts', jitter)
            /\ (call[c].invocations >= 1 /\ call'[c].invocations # call[c].invocations)
               => LET key == TrackKey(call[c].o.operationName,
                                      getErrorType(call[c].lastError))
                  IN  /\ call'[c].invocations = call[c].invocations + 1
                      /\ call'[c].attempt = call[c].attempt + 1
                      /\ call[c].pc = "backoff"
                      /\ call[c].failures = call[c].invocations
                      /\ key \in DOMAIN lastErrors
                      /\ lastErrors[key].error = Tracked(call[c].lastError)
                      /\ 10 * now >= call[c].wakeAt
                      /\ call[c].wakeAt >= 10 * baseDelay]_vars

\* C19, witness: a call is in its second invocation while the other call is
\* under way.
C19_Witness ==
    \E c \in Calls, d \in Calls :
        /\ c # d
        /\ call[c].pc = "awaitOp"
        /\ call[c].invocations = 2
        /\ call[d].pc \in {"awaitOp", "backoff"}

\* The calls whose invocation fails in this step.
Failing == {c \in Calls : call'[c].failures = call[c].failures + 1}

\* C20: a failed invocation adds exactly 1 to the count of exactly one
\* tracking entry (a new entry starts at 1) and leaves the other entries as
\* they are; any other step changes no entry and creates none, it can only
\* delete entries.  So the counts never exceed the failures recorded, and an
\* entry carries the count noted in lastErrors at its last failure.
C20_NoLostCounts ==
    /\ [][/\ Cardinality(Failing) <= 1
          /\ \A c \in Failing :
                LET key == TrackKey(call[c].o.operationName,
                                    getErrorType(call'[c].lastError))
                IN  /\ key \in DOMAIN errorCounts'
                    /\ errorCounts'[key].count =
                          (IF key \in DOMAIN errorCounts THEN errorCounts[key].count ELSE 0) + 1
                    /\ \A k \in (DOMAIN errorCounts \cup DOMAIN errorCounts') \ {key} :
                          SameEntry(errorCounts', errorCounts, k)
          /\ Failing = {} =>
                \A k \in DOMAIN errorCounts' :
                   k \in DOMAIN errorCounts /\ errorCounts'[k] = errorCounts[k]]_vars
    /\ [](/\ SumCounts(errorCounts, DOMAIN errorCounts) <= SumFailures(Calls)
          /\ \A k \in DOMAIN errorCounts :
                /\ errorCounts[k].count >= 1
                /\ k \in DOMAIN lastErrors
                /\ lastErrors[k].count = errorCounts[k].count)

\* C20, witness: two calls that overlap have each failed once into the same
\* entry, which counts 2.
C20_Witness ==
    \E k \in DOMAIN errorCounts :
        /\ errorCounts[k].count = 2
        /\ \A c \in Calls :
              /\ call[c].failures = 1
              /\ call[c].invocations = 1
              /\ TrackKey(call[c].o.operationName, getErrorType(call[c].lastError)) = k
        /\ \E c \in Calls : call[c].pc = "backoff"

\* C21: in the step in which an invocation of a call fails, before the call
\* raises or starts its backoff, the failure is recorded under the key of its
\* operation name and the type of the error: an entry is created with
\* count 1 and firstError = lastError = now, or its count grows by 1 and its
\* lastError becomes now; lastErrors gets the error, the time and the count.
C21_RecordedFirst ==
    [][\A c \in Failing :
         LET error == call'[c].lastError
             key == TrackKey(call[c].o.operationName, getErrorType(error))
         IN  /\ error.defined
             /\ key \in DOMAIN errorCounts'
             /\ errorCounts'[key].lastError = now
             /\ IF key \in DOMAIN errorCounts
                THEN /\ errorCounts'[key].count = errorCounts[key].count + 1
                     /\ errorCounts'[key].firstError = errorCounts[key].firstError
                ELSE /\ errorCounts'[key].count = 1
                     /\ errorCounts'[key].firstError = now
             /\ key \in DOMAIN lastErrors'
             /\ lastErrors'[key] = [error |-> Tracked(error),
                                    timestamp |-> now,
                                    count |-> errorCounts'[key].count]
             /\ \/ call'[c].pc = "backoff"
                \/ call'[c].pc = "done" /\ call'[c].outcome = "raised"
                     /\ call'[c].thrown = error]_vars

\* C21, witness: a call has raised the error of its final attempt, and the
\* entry of that error counts two failures, the second later than the first.
C21_Witness ==
    \E c \in Calls :
        /\ RaisedLastError(call[c])
        /\ call[c].lastError.defined
        /\ LET key == TrackKey(call[c].o.operationName, getErrorType(call[c].lastError))
           IN  /\ key \in DOMAIN errorCounts
               /\ errorCounts[key].count = 2
               /\ errorCounts[key].firstError < errorCounts[key].lastError
               /\ lastErrors[key].timestamp = errorCounts[key].lastError
               /\ lastErrors[key].count = 2

\* C22: after start-up the loading flag of AuthProvider becomes false and
\* stays false, with no stored token, when the user fetch succeeds and when
\* it fails; a fetch that failed leaves no token and no user.
C22_LoadingResolves ==
    /\ <>[](auth.loading = FALSE)
    /\ [](auth.pc = "idle" =>
            /\ auth.loading = FALSE
            /\ call[AuthCall].outcome = "raised" => (auth.token = NoToken /\ auth.user = ""))
    /\ [][auth.loading = FALSE => auth'.loading = FALSE]_vars

\* C22, witness: the start-up ended with loading false after the user fetch
\* failed following a retry.
C22_Witness ==
    /\ auth.pc = "idle"
    /\ auth.loading = FALSE
    /\ auth.token = NoToken
    /\ call[AuthCall].outcome = "raised"
    /\ call[AuthCall].invocations = 2

\* The tracking keys whose count grows in this step.
Recorded ==
    {k \in DOMAIN errorCounts' :
        k \notin DOMAIN errorCounts \/ errorCounts'[k].count # errorCounts[k].count}

\* C23: a call that ends in the step in which an invocation failed, on a
\* non-retryable error or after its last allowed attempt, raises the error of
\* that invocation: the value raised has the message and the status recorded
\* in this step, and it is the lastError of the call.
C23_FinalErrorIdentity ==
    [][\A c \in Failing :
         call'[c].pc = "done"
         => /\ call'[c].outcome = "raised"
            /\ call'[c].thrown.defined
            /\ call'[c].thrown = call'[c].lastError
            /\ \A k \in Recorded : lastErrors'[k].error = Tracked(call'[c].thrown)
            /\ \/ getErrorType(call'[c].thrown) \in noRetryErrors
               \/ call'[c].invocations = call'[c].o.maxRetries + 1]_vars

\* C23, witness: a call gave up after a network failure followed by a server
\* failure and raised the server failure.
C23_Witness ==
    \E c \in Calls :
        /\ RaisedLastError(call[c])
        /\ call[c].failures = 2
        /\ call[c].thrown.status = 500
        /\ \A d \in Calls \ {c} : call[d].pc = "idle"
        /\ LET first == TrackKey(call[c].o.operationName, "network")
               last == TrackKey(call[c].o.operationName, "server")
           IN  /\ first \in DOMAIN lastErrors
               /\ last \in DOMAIN lastErrors
               /\ lastErrors[first].timestamp < lastErrors[last].timestamp

\* The kinds of query that only read.
ReadKinds == {"getErrorStats", "getRateLimitStatus", "isRateLimited", "getUserFriendlyMessage"}

\* C24: a call of getErrorStats, getRateLimitStatus, checkRateLimit
\* (isRateLimited) or getFriendlyErrorMessage leaves errorCounts, lastErrors
\* and rateLimits exactly as they were, in every reachable state and however
\* often it is repeated.
C24_ReadsChangeNothing ==
    [][query'.kind \in ReadKinds =>
          /\ errorCounts' = errorCounts
          /\ lastErrors' = lastErrors
          /\ rateLimits' = rateLimits]_vars

\* checkRateLimit has just answered false for a window that has expired and
\* is still stored, next to a tracked failure.
C24_Witness ==
    /\ query.kind = "isRateLimited"
    /\ query.operation = "fetch"
    /\ ~query.ret
    /\ MapHas(rateLimits, "fetch")
    /\ now >= rateLimits["fetch"].resetTime
    /\ DOMAIN errorCounts # {}
    /\ DOMAIN lastErrors # {}

\* C25: no step of an execute call, whatever its outcome, creates,
\* increments, resets or deletes a rate-limit window: a window changes only
\* in a call of applyRateLimit, and no step removes a window.
C25_WindowsOnlyByApply ==
    [][/\ DOMAIN rateLimits \subseteq DOMAIN rateLimits'
       /\ call' # call => rateLimits' = rateLimits
       /\ rateLimits' # rateLimits =>
             /\ call' = call
             /\ \E operation \in OpNames, windowMs \in LimitWindowSet,
                   maxRequests \in LimitMaxRequestsSet :
                   rateLimits' = applyRateLimit(rateLimits, operation, windowMs,
                                                maxRequests, now).rateLimits]_vars

\* A call for fetch failed once and then returned, another call for fetch
\* was refused by the rate limit, and the window of fetch still holds the two
\* requests applyRateLimit counted.
C25_Witness ==
    /\ \E c \in Calls :
          /\ call[c].o.operationName = "fetch"
          /\ call[c].outcome = "returned"
          /\ call[c].failures >= 1
    /\ \E c \in Calls :
          /\ call[c].o.operationName = "fetch"
          /\ call[c].pc = "done"
          /\ IsRateLimitError(call[c].thrown)
    /\ MapHas(rateLimits, "fetch")
    /\ rateLimits["fetch"].count = 2

\* C26: a call is refused with the rate-limit error only when the window of
\* its name is unexpired and its count has reached maxRequests, as isLimited
\* of getRateLimitStatus says; so a call that starts after applyRateLimit
\* answered false for its name, in the window that answer was given for, is
\* not refused by the rate limit and, unless the circuit is open, invokes
\* the operation.
C26_AllowedCallsPass ==
    [][\A c \in Calls :
         Starts(c) =>
           LET n == call'[c].o.operationName
               admitted == /\ MapHas(rateLimits, n)
                           /\ now < rateLimits[n].resetTime
                           /\ rlHist[n].calls >= 1
                           /\ ~rlHist[n].ret
           IN  /\ IsRateLimitError(call'[c].thrown) =>
                     /\ MapHas(rateLimits, n)
                     /\ getRateLimitStatus(rateLimits, now)[n].isLimited
               /\ admitted => ~IsRateLimitError(call'[c].thrown)
               /\ admitted /\ ~circuitOpen(errorCounts, call'[c].o, now) =>
                     call'[c].invocations = 1]_vars

\* The calls whose operation is invoked in this step.
Invoked == {c \in Calls : call'[c].invocations = call[c].invocations + 1}

\* C27: the operation of a name is never invoked, by the first attempt of a
\* call or by a later retry, while the failures recorded for that name since
\* its last success number at least circuitBreakerThreshold and less than
\* circuitBreakerTimeout has passed since the last of them.
C27_NoInvocationWhileOpen ==
    [][\A c \in Invoked :
         LET o == call'[c].o
             n == o.operationName
         IN  ~(/\ hist[n].fails >= o.circuitBreakerThreshold
               /\ now - hist[n].lastFail < o.circuitBreakerTimeout)]_vars

\* C27, as the code counts: the same with the count and the time of the
\* entry the circuit check reads, errorCounts.get(operationName).
C27_NoInvocationWhileEntryOpen ==
    [][\A c \in Invoked : ~circuitOpen(errorCounts, call'[c].o, now)]_vars

\* The calls that take a step.
Stepping == {c \in Calls : call'[c] # call[c]}

\* C28: a step of a call for name A (a start with its circuit reset, a
\* failure, a success) never creates, changes or deletes the entry that the
\* circuit check, the backoff and the success reset of another name B read,
\* the entry under B; and a call for B is refused by the circuit breaker
\* only after failures of B itself.
C28_NameIsolation ==
    [][\A c \in Stepping :
         LET A == call'[c].o.operationName IN
         /\ \A B \in OpNames \ {A} : SameEntry(errorCounts', errorCounts, B)
         /\ Starts(c) /\ CircuitRejected(call'[c]) => hist[A].fails >= 1]_vars

\* C29: in every reachable state every entry of errorCounts has a count of
\* at least 1 and firstError <= lastError, its key is a key of lastErrors,
\* and the record of lastErrors under that key carries the same count and a
\* timestamp equal to the entry's lastError.
C29_TrackingEntries ==
    \A key \in DOMAIN errorCounts :
        /\ errorCounts[key].count >= 1
        /\ errorCounts[key].firstError <= errorCounts[key].lastError
        /\ key \in DOMAIN lastErrors
        /\ lastErrors[key].count = errorCounts[key].count
        /\ lastErrors[key].timestamp = errorCounts[key].lastError

\* A call has deleted the entry of its name, whose key lastErrors still
\* holds, and a failure recorded after that, at a later time, has its entry
\* in both maps.
C29_Witness ==
    /\ DOMAIN lastErrors \ DOMAIN errorCounts # {}
    /\ \E key \in DOMAIN errorCounts :
          /\ errorCounts[key].lastError > 0
          /\ \A other \in DOMAIN lastErrors \ DOMAIN errorCounts :
                lastErrors[other].timestamp < errorCounts[key].lastError

\* C30: in every reachable state every rate-limit window has
\* 1 <= count <= max(1, maxRequests); a window is never removed and keeps the
\* maxRequests it was created with, whatever later calls pass; a call that
\* returns true leaves the window as it is; and a window changes only in a
\* call that returns false, which starts it again at 1 when it has expired
\* and otherwise adds 1 to its count without exceeding maxRequests, so that
\* the count is the number of calls that returned false in the window.
C30_WindowInvariant ==
    /\ [](\A n \in DOMAIN rateLimits :
             /\ 1 <= rateLimits[n].count
             /\ rateLimits[n].count <= Max(1, rateLimits[n].maxRequests))
    /\ [][\A n \in DOMAIN rateLimits :
            /\ n \in DOMAIN rateLimits'
            /\ rateLimits'[n].maxRequests = rateLimits[n].maxRequests
            /\ rlHist'[n] # rlHist[n] /\ rlHist'[n].ret => rateLimits'[n] = rateLimits[n]
            /\ rateLimits'[n] # rateLimits[n] =>
                  /\ ~rlHist'[n].ret
                  /\ IF now >= rateLimits[n].resetTime
                     THEN rateLimits'[n].count = 1
                     ELSE /\ rateLimits'[n].count = rateLimits[n].count + 1
                          /\ rateLimits'[n].count <= rateLimits[n].maxRequests
                          /\ rateLimits'[n].resetTime = rateLimits[n].resetTime]_vars

\* A window created with maxRequests 2 is full and the last call for it
\* returned true; a window created with maxRequests 0 holds the count 1 of
\* its first call and the last call for it returned true.
C30_Witness ==
    /\ MapHas(rateLimits, "fetch")
    /\ rateLimits["fetch"].maxRequests = 2
    /\ rateLimits["fetch"].count = 2
    /\ rlHist["fetch"].ret
    /\ MapHas(rateLimits, "fetch_network")
    /\ rateLimits["fetch_network"].maxRequests = 0
    /\ rateLimits["fetch_network"].count = 1
    /\ rlHist["fetch_network"].ret

\* The call was refused at its entry, by the circuit check or by the
\* rate-limit check.
FastFailed(r) == CircuitRejected(r) \/ (r.pc = "done" /\ IsRateLimitError(r.thrown))

\* C31: a call that is rejected with the circuit-open error or with the
\* rate-limit error leaves errorCounts and lastErrors exactly as they were:
\* nothing is recorded, no entry is removed, no timestamp is refreshed.
C31_FastFailRecordsNothing ==
    [][\A c \in Calls :
         Starts(c) /\ FastFailed(call'[c]) =>
            /\ errorCounts' = errorCounts
            /\ lastErrors' = lastErrors]_vars

\* C31, amended: a call rejected with the circuit-open error leaves both
\* maps as they were; a call rejected with the rate-limit error leaves
\* lastErrors as it was and errorCounts too, except that the entry under its
\* name is deleted when that entry had reached the threshold and the timeout
\* has passed since its lastError: the circuit check, which comes first, has
\* then reset the breaker.
C31_FastFailFrame ==
    [][\A c \in Calls :
         Starts(c) /\ FastFailed(call'[c]) =>
            LET o == call'[c].o
                n == o.operationName
                cooled == /\ n \in DOMAIN errorCounts
                          /\ errorCounts[n].count >= o.circuitBreakerThreshold
                          /\ now - errorCounts[n].lastError >= o.circuitBreakerTimeout
            IN  /\ lastErrors' = lastErrors
                /\ CircuitRejected(call'[c]) => errorCounts' = errorCounts
                /\ ~CircuitRejected(call'[c]) =>
                      /\ \A key \in DOMAIN errorCounts \ {n} :
                            SameEntry(errorCounts', errorCounts, key)
                      /\ DOMAIN errorCounts' \subseteq DOMAIN errorCounts
                      /\ IF cooled THEN n \notin DOMAIN errorCounts'
                         ELSE SameEntry(errorCounts', errorCounts, n)]_vars

\* A call was refused by the rate limit after the circuit check had reset
\* the breaker of its name: the entry under its name is gone from
\* errorCounts, and lastErrors still holds it.
C31_Witness ==
    \E c \in Calls :
        /\ call[c].pc = "done"
        /\ IsRateLimitError(call[c].thrown)
        /\ call[c].invocations = 0
        /\ call[c].halfOpen
        /\ call[c].o.operationName \in DOMAIN lastErrors \ DOMAIN errorCounts

\* login settles in this step.
LoginSettles == auth.login = "fetchUser" /\ auth'.login # "fetchUser"

\* C32: login(token) resolves true only if its user fetch succeeded, and
\* then the user is set and the token stored; when the user fetch fails,
\* after the retries of retryOperation, login rejects with an error carrying
\* the friendly message of the failure, and token, user and octokit are
\* cleared and the stored token is removed.
C32_LoginReportsFailure ==
    [][LoginSettles =>
         LET r == call[LoginCall] IN
         IF r.outcome = "returned"
         THEN /\ auth'.login = "resolved"
              /\ auth'.user = r.result
              /\ auth'.token = auth.loginToken
              /\ auth'.stored = auth.loginToken
         ELSE /\ auth'.login = "rejected"
              /\ auth'.loginError = getUserFriendlyMessage(r.thrown)
              /\ auth'.token = NoToken
              /\ auth'.user = ""
              /\ auth'.octokit = NoToken
              /\ auth'.stored = NoToken]_vars

====
